---- MODULE Spec2Model ----
(***************************************************************************)
(* Model of opy/compiler2/pyassem.py: the flow graph of basic blocks, the  *)
(* block orderer, the graph flattener, the operand encoder and the         *)
(* assembler with its line-number table.                                   *)
(*                                                                         *)
(* Blocks are addressed by their bid (Block.__init__ takes it from         *)
(* gBlockCounter); an instruction is a record [op, n, arg] where n is the  *)
(* tuple length (1 or 2) and arg a typed value [t, v]: t is the Python     *)
(* type ("blk" a Block, "int", "long", "str", "none") and v the value.     *)
(***************************************************************************)
EXTENDS Integers, Sequences, FiniteSets, TLC

VARIABLES
    blocks,         \* bid -> Block object (label, bid, insts, outEdges, next, prev)
    gBlockCounter,  \* module global gBlockCounter
    current,        \* FlowGraph.current
    addr,           \* bid -> id() of the Block object in this run
    addr2,          \* bid -> id() of the same Block in a second, independent run
    klass,          \* PyFlowGraph.klass ("None" or "True")
    docstring,      \* PyFlowGraph.docstring
    flags,          \* PyFlowGraph.flags (set of flag names)
    argcount,       \* PyFlowGraph.argcount
    lastArgs,       \* history: the argument of the last setArgs call
    consts, names, varnames, closure, cellvars, freevars,   \* the tables
    pc,             \* where the client / MakeCodeObject stands
    stacksize,      \* local of MakeCodeObject
    order,          \* local `blocks` of MakeCodeObject (result of OrderBlocks)
    flat,           \* result of FlattenGraph, before the operand encoder
    insts,          \* local `insts` of MakeCodeObject (rewritten in place)
    idx,            \* loop index over insts (encoder loop, then Assemble's loop)
    ass,            \* the Assembler object
    lines,          \* history: the SET_LINENO calls Assemble has made
    co,             \* the code object returned
    run2,           \* what the second run returns for the same calls
    calls           \* history: the calls of MakeCodeObject made on the graph

vars == << blocks, gBlockCounter, current, addr, addr2, klass, docstring, flags,
           argcount, lastArgs, consts, names, varnames, closure, cellvars,
           freevars, pc,
           stacksize, order, flat, insts, idx, ass, lines, co, run2, calls >>

graphVars == << blocks, gBlockCounter, current, addr, addr2 >>
tableVars == << consts, names, varnames, closure, cellvars, freevars >>
metaVars  == << klass, docstring, flags, argcount, lastArgs >>
asmVars   == << stacksize, order, flat, insts, idx, ass, lines, co, run2, calls >>

-----------------------------------------------------------------------------
(* Bounds of the model *)

MaxBlocks == 3      \* blocks created per graph (entry and exit included)
MaxInsts  == 2      \* instructions emitted into a graph

-----------------------------------------------------------------------------
(* Values and instructions *)

NoArg        == [t |-> "none", v |-> 0]
BlockArg(b)  == [t |-> "blk", v |-> b]
IntV(v)      == [t |-> "int", v |-> v]
LongV(v)     == [t |-> "long", v |-> v]
StrV(v)      == [t |-> "str", v |-> v]
None         == [t |-> "NoneType", v |-> 0]

Inst1(op)      == [op |-> op, n |-> 1, arg |-> NoArg]
Inst2(op, arg) == [op |-> op, n |-> 2, arg |-> arg]

\* dis.hasjrel / dis.hasjabs of the CPython 2.7 opcode table, by name
HAS_JREL == {"FOR_ITER", "JUMP_FORWARD", "SETUP_LOOP", "SETUP_EXCEPT",
             "SETUP_FINALLY", "SETUP_WITH"}
HAS_JABS == {"JUMP_IF_FALSE_OR_POP", "JUMP_IF_TRUE_OR_POP", "JUMP_ABSOLUTE",
             "POP_JUMP_IF_FALSE", "POP_JUMP_IF_TRUE", "CONTINUE_LOOP"}

uncond_transfer == {"RETURN_VALUE", "RAISE_VARARGS", "JUMP_ABSOLUTE",
                    "JUMP_FORWARD", "CONTINUE_LOOP"}

entry == 0          \* FlowGraph.entry: the first Block created
exit  == 1          \* FlowGraph.exit: the second

Bids == DOMAIN blocks

Block(label, bid) ==
    [label |-> label, bid |-> bid, insts |-> << >>, outEdges |-> {},
     next |-> << >>, prev |-> << >>]

RECURSIVE SeqSum(_)
SeqSum(s) == IF s = << >> THEN 0 ELSE s[1] + SeqSum(Tail(s))

NumInsts == SeqSum([i \in 1..Cardinality(Bids) |-> Len(blocks[i - 1].insts)])

\* Block.__hash__ as the bug-fix comment describes the default: id(self)
HashById(ad, b) == ad[b]

\* Block.__hash__: the bid
Hash(ad, b) == blocks[b].bid

\* Iteration over a Python set of Blocks: for the small tables used here the
\* slot of an entry is its hash, so entries come out by increasing hash.
RECURSIVE SetIter(_, _)
SetIter(ad, S) ==
    IF S = {} THEN << >>
    ELSE LET m == CHOOSE x \in S : \A y \in S : Hash(ad, x) <= Hash(ad, y)
         IN  << m >> \o SetIter(ad, S \ {m})

\* children without the out-edges
get_childrenNextOnly(ad, b) == blocks[b].next

\* Block.get_children
get_children(ad, b) == SetIter(ad, blocks[b].outEdges) \o blocks[b].next

\* Block.get_followers
get_followers(b) ==
    {blocks[b].next[i] : i \in 1..Len(blocks[b].next)}
    \cup {blocks[b].insts[i].arg.v :
            i \in {j \in 1..Len(blocks[b].insts) : blocks[b].insts[j].op \in HAS_JREL}}

\* Block.has_unconditional_transfer: unpacking a 1-tuple raises ValueError
\* and an empty list IndexError; both return None
has_unconditional_transfer(b) ==
    LET l == blocks[b].insts
    IN  IF l = << >> THEN FALSE
        ELSE IF l[Len(l)].n # 2 THEN FALSE
        ELSE l[Len(l)].op \in uncond_transfer

-----------------------------------------------------------------------------
(* OrderBlocks *)

\* lines 195-205: the blocks to be emitted, found with the todo stack
RECURSIVE FindRemaining(_, _, _)
FindRemaining(ad, todo, remaining) ==
    IF todo = << >> THEN remaining
    ELSE LET b    == todo[Len(todo)]
             rest == SubSeq(todo, 1, Len(todo) - 1)
         IN  IF b \in remaining THEN FindRemaining(ad, rest, remaining)
             ELSE LET rem2 == remaining \cup {b}
                      ch   == get_children(ad, b)
                      add  == SelectSeq(ch, LAMBDA c : c \notin rem2)
                  IN  FindRemaining(ad, rest \o add, rem2)

\* lines 218-226: the blocks b is added to as a dominator, starting at its
\* follower c and walking prev links; loop is TRUE when the walk never ends
RECURSIVE DomWalk(_, _, _)
DomWalk(b, c, acc) ==
    LET acc2 == acc \cup {c}
        p    == blocks[c].prev
    IN  IF p # << >> /\ p[1] # b
        THEN IF p[1] \in acc2 THEN [loop |-> TRUE, set |-> acc2]
             ELSE DomWalk(b, p[1], acc2)
        ELSE [loop |-> FALSE, set |-> acc2]

\* lines 209-226: dominators[x], for the blocks of remaining
Dominators(remaining, x) ==
    {b \in remaining : \E c \in get_followers(b) : x \in DomWalk(b, c, {}).set}

DominatorsLoop(remaining) ==
    \E b \in remaining : \E c \in get_followers(b) : DomWalk(b, c, {}).loop

\* lines 211-212: the assertion on the next / prev links
LinksAsserted(remaining) ==
    \A b \in remaining :
        blocks[b].next # << >> =>
            /\ blocks[blocks[b].next[1]].prev # << >>
            /\ blocks[blocks[b].next[1]].prev[1] = b

\* find_next: the first block of remaining, in set order, none of whose
\* dominators remains; << >> when there is none (the assert 0)
find_next(ad, start_remaining, remaining) ==
    LET ok == SelectSeq(SetIter(ad, remaining),
                        LAMBDA b : Dominators(start_remaining, b) \cap remaining = {})
    IN  IF ok = << >> THEN << >> ELSE << ok[1] >>

\* lines 238-250: the emission loop. chain holds the blocks appended since
\* the last find_next: following next into one of them never ends.
RECURSIVE OrderLoop(_, _, _, _, _, _)
OrderLoop(ad, all, ord, remaining, b, chain) ==
    LET ord1 == Append(ord, b)
        rem1 == remaining \ {b}
    IN  IF blocks[b].next # << >>
        THEN IF blocks[b].next[1] \in chain \cup {b}
             THEN [status |-> "loop", order |-> ord1]
             ELSE OrderLoop(ad, all, ord1, rem1, blocks[b].next[1], chain \cup {b})
        ELSE LET ord2 == IF b # exit /\ ~has_unconditional_transfer(b)
                         THEN Append(ord1, exit) ELSE ord1
             IN  IF rem1 = {} THEN [status |-> "ok", order |-> ord2]
                 ELSE LET n == find_next(ad, all, rem1)
                      IN  IF n = << >> THEN [status |-> "assert", order |-> ord2]
                          ELSE OrderLoop(ad, all, ord2, rem1, n[1], {})

OrderBlocks(ad, start_block) ==
    LET remaining == FindRemaining(ad, << start_block >>, {})
    IN  IF ~LinksAsserted(remaining) THEN [status |-> "assert", order |-> << >>]
        ELSE IF DominatorsLoop(remaining) THEN [status |-> "loop", order |-> << >>]
        ELSE OrderLoop(ad, remaining, << >>, remaining, start_block, {})

-----------------------------------------------------------------------------
(* StackDepthTracker and ComputeStackDepth *)

\* StackDepthTracker.effect
EffectOps == {"POP_TOP", "DUP_TOP", "LIST_APPEND", "SET_ADD", "MAP_ADD",
              "SLICE+1", "SLICE+2", "SLICE+3", "STORE_SLICE+0",
              "STORE_SLICE+1", "STORE_SLICE+2", "STORE_SLICE+3",
              "DELETE_SLICE+0", "DELETE_SLICE+1", "DELETE_SLICE+2",
              "DELETE_SLICE+3", "STORE_SUBSCR", "DELETE_SUBSCR",
              "PRINT_ITEM", "RETURN_VALUE", "YIELD_VALUE", "EXEC_STMT",
              "BUILD_CLASS", "STORE_NAME", "STORE_ATTR", "DELETE_ATTR",
              "STORE_GLOBAL", "BUILD_MAP", "COMPARE_OP", "STORE_FAST",
              "IMPORT_STAR", "IMPORT_NAME", "IMPORT_FROM", "LOAD_ATTR",
              "SETUP_EXCEPT", "SETUP_FINALLY", "FOR_ITER", "WITH_CLEANUP"}

effect(op) ==
    CASE op = "POP_TOP"        -> -1
      [] op = "DUP_TOP"        -> 1
      [] op = "LIST_APPEND"    -> -1
      [] op = "SET_ADD"        -> -1
      [] op = "MAP_ADD"        -> -2
      [] op = "SLICE+1"        -> -1
      [] op = "SLICE+2"        -> -1
      [] op = "SLICE+3"        -> -2
      [] op = "STORE_SLICE+0"  -> -1
      [] op = "STORE_SLICE+1"  -> -2
      [] op = "STORE_SLICE+2"  -> -2
      [] op = "STORE_SLICE+3"  -> -3
      [] op = "DELETE_SLICE+0" -> -1
      [] op = "DELETE_SLICE+1" -> -2
      [] op = "DELETE_SLICE+2" -> -2
      [] op = "DELETE_SLICE+3" -> -3
      [] op = "STORE_SUBSCR"   -> -3
      [] op = "DELETE_SUBSCR"  -> -2
      [] op = "PRINT_ITEM"     -> -1
      [] op = "RETURN_VALUE"   -> -1
      [] op = "YIELD_VALUE"    -> -1
      [] op = "EXEC_STMT"      -> -3
      [] op = "BUILD_CLASS"    -> -2
      [] op = "STORE_NAME"     -> -1
      [] op = "STORE_ATTR"     -> -2
      [] op = "DELETE_ATTR"    -> -1
      [] op = "STORE_GLOBAL"   -> -1
      [] op = "BUILD_MAP"      -> 1
      [] op = "COMPARE_OP"     -> -1
      [] op = "STORE_FAST"     -> -1
      [] op = "IMPORT_STAR"    -> -1
      [] op = "IMPORT_NAME"    -> -1
      [] op = "IMPORT_FROM"    -> 1
      [] op = "LOAD_ATTR"      -> 0
      [] op = "SETUP_EXCEPT"   -> 3
      [] op = "SETUP_FINALLY"  -> 3
      [] op = "FOR_ITER"       -> 1
      [] op = "WITH_CLEANUP"   -> -1

\* StackDepthTracker.patterns: the opcodes whose name starts with the prefix
BinaryOps == {"BINARY_ADD", "BINARY_SUBSCR"}
LoadOps   == {"LOAD_CONST", "LOAD_NAME", "LOAD_FAST", "LOAD_GLOBAL", "LOAD_DEREF",
              "LOAD_CLOSURE", "LOAD_ATTR", "LOAD_LOCALS"}

\* the methods of StackDepthTracker named after an opcode
MethodOps == {"UNPACK_SEQUENCE", "BUILD_TUPLE", "BUILD_LIST", "BUILD_SET",
              "CALL_FUNCTION", "CALL_FUNCTION_VAR", "CALL_FUNCTION_KW",
              "CALL_FUNCTION_VAR_KW", "MAKE_FUNCTION", "MAKE_CLOSURE", "DUP_TOPX"}

CALL_FUNCTION(argc) == 0 - ((argc % 256) + (argc \div 256) * 2)

method(op, argc) ==
    CASE op = "UNPACK_SEQUENCE" -> argc - 1
      [] op \in {"BUILD_TUPLE", "BUILD_LIST", "BUILD_SET"} -> 1 - argc
      [] op = "CALL_FUNCTION"   -> CALL_FUNCTION(argc)
      [] op \in {"CALL_FUNCTION_VAR", "CALL_FUNCTION_KW"} -> CALL_FUNCTION(argc) - 1
      [] op = "CALL_FUNCTION_VAR_KW" -> CALL_FUNCTION(argc) - 2
      [] op \in {"MAKE_FUNCTION", "MAKE_CLOSURE"} -> 0 - argc
      [] op = "DUP_TOPX"        -> argc

\* the delta findDepth adds for one instruction
InstDelta(i) ==
    IF i.op \in EffectOps THEN effect(i.op)
    ELSE IF i.op \in BinaryOps THEN -1
    ELSE IF i.op \in LoadOps THEN 1
    ELSE IF i.op \in MethodOps THEN method(i.op, i.arg.v)
    ELSE 0

\* a findDepth that returns the depth at the end of the list
RECURSIVE findDepthNet(_, _, _, _)
findDepthNet(l, k, depth, maxDepth) ==
    IF k > Len(l) THEN depth
    ELSE findDepthNet(l, k + 1, depth + InstDelta(l[k]), maxDepth)

\* StackDepthTracker.findDepth: the highest depth reached inside the list
RECURSIVE findDepthFrom(_, _, _, _)
findDepthFrom(l, k, depth, maxDepth) ==
    IF k > Len(l) THEN maxDepth
    ELSE LET d == depth + InstDelta(l[k])
         IN  findDepthFrom(l, k + 1, d, IF d > maxDepth THEN d ELSE maxDepth)

findDepth(l) == findDepthFrom(l, 1, 0, 0)

RECURSIVE SeqMax(_)
SeqMax(s) == IF Len(s) = 1 THEN s[1]
             ELSE LET m == SeqMax(Tail(s)) IN IF s[1] > m THEN s[1] ELSE m

\* max_depth of ComputeStackDepth; seen is shared by all the calls, so the
\* result carries it along
RECURSIVE max_depth(_, _, _, _)
RECURSIVE max_depth_children(_, _, _, _, _)
max_depth(ad, b, d, seen) ==
    IF b \in seen THEN [val |-> d, seen |-> seen]
    ELSE LET seen1    == seen \cup {b}
             d1       == d + findDepth(blocks[b].insts)
             children == get_children(ad, b)
         IN  IF children # << >>
             THEN max_depth_children(ad, children, d1, seen1, << >>)
             ELSE IF blocks[b].label # "exit"
                  THEN max_depth(ad, exit, d1, seen1)
                  ELSE [val |-> d1, seen |-> seen1]

max_depth_children(ad, children, d, seen, vals) ==
    IF children = << >> THEN [val |-> SeqMax(vals), seen |-> seen]
    ELSE LET r == max_depth(ad, children[1], d, seen)
         IN  max_depth_children(ad, Tail(children), d, r.seen, Append(vals, r.val))

ComputeStackDepth(ad) == max_depth(ad, entry, 0, {}).val

-----------------------------------------------------------------------------
(* FlattenGraph *)

\* the bytes an instruction takes (lines 75-79, 83-86)
Width(inst) == IF inst.n = 1 THEN 1 ELSE IF inst.op # "SET_LINENO" THEN 3 ELSE 0

RECURSIVE WidthSum(_)
WidthSum(l) == IF l = << >> THEN 0 ELSE Width(l[1]) + WidthSum(Tail(l))

\* first pass: the instructions of the blocks, in order
RECURSIVE FlatInsts(_)
FlatInsts(ord) ==
    IF ord = << >> THEN << >> ELSE blocks[ord[1]].insts \o FlatInsts(Tail(ord))

\* first pass: begin[b], the pc at which the last listing of b starts
RECURSIVE Begin(_, _, _)
Begin(ord, pcnt, begin) ==
    IF ord = << >> THEN begin
    ELSE Begin(Tail(ord), pcnt + WidthSum(blocks[ord[1]].insts),
               (ord[1] :> pcnt) @@ begin)

IsJump(inst) == inst.op \in HAS_JREL \cup HAS_JABS

\* second pass: inst[1] of a 1-tuple raises IndexError, begin[x] of something
\* that is no listed block raises KeyError
FixupFails(inst, begin) ==
    IsJump(inst) /\ (inst.n = 1 \/ inst.arg.t # "blk" \/ inst.arg.v \notin DOMAIN begin)

\* the second pass with the pc of the instruction itself, not the one after
FixupStalePc(inst, pcnt, begin) ==
    IF inst.op \in HAS_JREL
    THEN Inst2(inst.op, IntV(begin[inst.arg.v] - (pcnt - 3)))
    ELSE IF inst.op \in HAS_JABS THEN Inst2(inst.op, IntV(begin[inst.arg.v]))
    ELSE inst

\* second pass: the instruction with its jump target made numeric; pcnt is
\* the pc after the instruction
Fixup(inst, pcnt, begin) ==
    IF inst.op \in HAS_JREL THEN Inst2(inst.op, IntV(begin[inst.arg.v] - pcnt))
    ELSE IF inst.op \in HAS_JABS THEN Inst2(inst.op, IntV(begin[inst.arg.v]))
    ELSE inst

FlattenGraph(ord) ==
    LET l     == FlatInsts(ord)
        begin == Begin(ord, 0, << >>)
    IN  IF \E i \in 1..Len(l) : FixupFails(l[i], begin)
        THEN [status |-> "error", insts |-> << >>]
        ELSE [status |-> "ok",
              insts |-> [i \in 1..Len(l) |->
                            Fixup(l[i], WidthSum(SubSeq(l, 1, i)), begin)]]

-----------------------------------------------------------------------------
(* _NameToIndex and ArgEncoder *)

\* a comparison that leaves the types out, as a dictionary lookup would
SameTypeLoose(item, name) == TRUE

\* t == type(item): the types are the same
SameType(item, name) == item.t = name.t

\* item == name: Python compares an int and a long by value
NumTypes == {"int", "long", "float", "bool"}
PyEq(item, name) ==
    /\ item.v = name.v
    /\ \/ item.t = name.t
       \/ item.t \in NumTypes /\ name.t \in NumTypes

\* an interning that puts a new entry first
NameToIndexFront(name, L) ==
    LET hits == {i \in 1..Len(L) : SameType(L[i], name) /\ PyEq(L[i], name)}
    IN  IF hits # {}
        THEN [i |-> (CHOOSE i \in hits : \A j \in hits : i <= j) - 1, L |-> L]
        ELSE [i |-> 0, L |-> << name >> \o L]

\* _NameToIndex(name, L): the index returned (from 0) and the list afterwards
NameToIndex(name, L) ==
    LET hits == {i \in 1..Len(L) : SameType(L[i], name) /\ PyEq(L[i], name)}
    IN  IF hits # {}
        THEN [i |-> (CHOOSE i \in hits : \A j \in hits : i <= j) - 1, L |-> L]
        ELSE [i |-> Len(L), L |-> Append(L, name)]

FastOps  == {"LOAD_FAST", "STORE_FAST", "DELETE_FAST"}
NameOps  == {"LOAD_NAME", "STORE_NAME", "DELETE_NAME", "IMPORT_NAME", "IMPORT_FROM",
             "STORE_ATTR", "LOAD_ATTR", "DELETE_ATTR", "LOAD_GLOBAL",
             "STORE_GLOBAL", "DELETE_GLOBAL", "NAME"}
DerefOps == {"LOAD_DEREF", "STORE_DEREF", "DEREF"}

\* ArgEncoder.Get: whether the opcode has a converter
HasConverter(op) ==
    op \in {"LOAD_CONST", "LOAD_CLOSURE"} \cup FastOps \cup NameOps \cup DerefOps

Tables(c, n, v, cl) == [consts |-> c, names |-> n, varnames |-> v, closure |-> cl]

\* _convert_LOAD_CONST: T the tables; the result is the index and the tables
convert_LOAD_CONST(kl, T, arg) ==
    LET r == NameToIndex(arg, T.consts)
    IN  [i |-> r.i, T |-> [T EXCEPT !.consts = r.L]]

\* _convert_LOAD_FAST
convert_LOAD_FAST(kl, T, arg) ==
    LET r1 == NameToIndex(arg, T.names)
        r2 == NameToIndex(arg, T.varnames)
    IN  [i |-> r2.i, T |-> [T EXCEPT !.names = r1.L, !.varnames = r2.L]]

\* _convert_LOAD_NAME and _convert_NAME (the same body)
convert_NAME(kl, T, arg) ==
    LET r1 == IF kl = "None" THEN NameToIndex(arg, T.varnames)
              ELSE [i |-> 0, L |-> T.varnames]
        r2 == NameToIndex(arg, T.names)
    IN  [i |-> r2.i, T |-> [T EXCEPT !.varnames = r1.L, !.names = r2.L]]

\* _convert_DEREF
convert_DEREF(kl, T, arg) ==
    LET r1 == NameToIndex(arg, T.names)
        r2 == NameToIndex(arg, T.varnames)
        r3 == NameToIndex(arg, T.closure)
    IN  [i |-> r3.i,
         T |-> [T EXCEPT !.names = r1.L, !.varnames = r2.L, !.closure = r3.L]]

\* _convert_LOAD_CLOSURE
convert_LOAD_CLOSURE(kl, T, arg) ==
    LET r1 == NameToIndex(arg, T.varnames)
        r2 == NameToIndex(arg, T.closure)
    IN  [i |-> r2.i, T |-> [T EXCEPT !.varnames = r1.L, !.closure = r2.L]]

\* method(enc, oparg) for the converter of the opcode
Convert(op, kl, T, arg) ==
    IF op = "LOAD_CONST" THEN convert_LOAD_CONST(kl, T, arg)
    ELSE IF op \in FastOps THEN convert_LOAD_FAST(kl, T, arg)
    ELSE IF op \in NameOps THEN convert_NAME(kl, T, arg)
    ELSE IF op \in DerefOps THEN convert_DEREF(kl, T, arg)
    ELSE convert_LOAD_CLOSURE(kl, T, arg)

\* the table whose index the converter of the opcode returns
IndexTable(op, T) ==
    IF op = "LOAD_CONST" THEN T.consts
    ELSE IF op \in FastOps THEN T.varnames
    ELSE IF op \in NameOps THEN T.names
    ELSE T.closure

-----------------------------------------------------------------------------
(* Assembler *)

\* Assembler.__init__
NewAssembler ==
    [code |-> << >>, codeOffset |-> 0, firstline |-> 0, lastline |-> 0,
     lastoff |-> 0, lnotab |-> << >>]

\* an addCode that counts one byte per call
addCodeOne(a, args) ==
    [a EXCEPT !.code = @ \o args, !.codeOffset = @ + 1]

\* Assembler.addCode
addCode(a, args) ==
    [a EXCEPT !.code = @ \o args, !.codeOffset = @ + Len(args)]

\* the address delta pushed whole, whatever its size
PushAddrWhole(tab, a) == [tab |-> tab, addr |-> a]

\* lines 600-602 of nextLine
RECURSIVE PushAddr(_, _)
PushAddr(tab, a) ==
    IF a > 255 THEN PushAddr(tab \o << 255, 0 >>, a - 255)
    ELSE [tab |-> tab, addr |-> a]

\* lines 603-606 of nextLine
RECURSIVE PushLine(_, _, _)
PushLine(tab, a, line) ==
    IF line > 255 THEN PushLine(tab \o << a, 255 >>, 0, line - 255)
    ELSE [tab |-> tab, addr |-> a, line |-> line]

\* a nextLine that takes a line lower than firstline for the first line
nextLineLowestFirst(a, lineno) ==
    IF a.firstline = 0 \/ lineno < a.firstline
    THEN [a EXCEPT !.firstline = lineno, !.lastline = lineno]
    ELSE LET ad   == a.codeOffset - a.lastoff
             line == lineno - a.lastline
         IN  IF line >= 0
             THEN LET p1  == PushAddr(a.lnotab, ad)
                      p2  == PushLine(p1.tab, p1.addr, line)
                      tab == IF p2.addr > 0 \/ p2.line > 0
                             THEN p2.tab \o << p2.addr, p2.line >> ELSE p2.tab
                  IN  [a EXCEPT !.lnotab = tab, !.lastline = lineno,
                                !.lastoff = a.codeOffset]
             ELSE a

\* a nextLine that records the line and the offset of a SET_LINENO it skips
nextLineRecordSkipped(a, lineno) ==
    IF a.firstline = 0
    THEN [a EXCEPT !.firstline = lineno, !.lastline = lineno]
    ELSE LET ad   == a.codeOffset - a.lastoff
             line == lineno - a.lastline
             tab  == IF line >= 0
                     THEN LET p1 == PushAddr(a.lnotab, ad)
                              p2 == PushLine(p1.tab, p1.addr, line)
                          IN  IF p2.addr > 0 \/ p2.line > 0
                              THEN p2.tab \o << p2.addr, p2.line >> ELSE p2.tab
                     ELSE a.lnotab
         IN  [a EXCEPT !.lnotab = tab, !.lastline = lineno,
                       !.lastoff = a.codeOffset]

\* Assembler.nextLine
nextLine(a, lineno) ==
    IF a.firstline = 0
    THEN [a EXCEPT !.firstline = lineno, !.lastline = lineno]
    ELSE LET ad   == a.codeOffset - a.lastoff
             line == lineno - a.lastline
         IN  IF line >= 0
             THEN LET p1  == PushAddr(a.lnotab, ad)
                      p2  == PushLine(p1.tab, p1.addr, line)
                      tab == IF p2.addr > 0 \/ p2.line > 0
                             THEN p2.tab \o << p2.addr, p2.line >> ELSE p2.tab
                  IN  [a EXCEPT !.lnotab = tab, !.lastline = lineno,
                                !.lastoff = a.codeOffset]
             ELSE a

\* OPNUM: the CPython 2.7 opcode numbers, for the opcodes the model emits
OPNUM(op) ==
    CASE op = "POP_TOP" -> 1
      [] op = "DUP_TOP" -> 4
      [] op = "RETURN_VALUE" -> 83
      [] op = "STORE_NAME" -> 90
      [] op = "DELETE_NAME" -> 91
      [] op = "STORE_ATTR" -> 95
      [] op = "DELETE_ATTR" -> 96
      [] op = "STORE_GLOBAL" -> 97
      [] op = "DELETE_GLOBAL" -> 98
      [] op = "LOAD_CONST" -> 100
      [] op = "LOAD_NAME" -> 101
      [] op = "BUILD_TUPLE" -> 102
      [] op = "LOAD_ATTR" -> 106
      [] op = "IMPORT_NAME" -> 108
      [] op = "IMPORT_FROM" -> 109
      [] op = "JUMP_FORWARD" -> 110
      [] op = "JUMP_ABSOLUTE" -> 113
      [] op = "POP_JUMP_IF_FALSE" -> 114
      [] op = "LOAD_GLOBAL" -> 116
      [] op = "SETUP_LOOP" -> 120
      [] op = "UNPACK_SEQUENCE" -> 92
      [] op = "LOAD_FAST" -> 124
      [] op = "STORE_FAST" -> 125
      [] op = "CALL_FUNCTION" -> 131
      [] op = "LOAD_CLOSURE" -> 135
      [] op = "LOAD_DEREF" -> 136
      [] op = "STORE_DEREF" -> 137

\* a chr that takes any number
IsByteAny(x) == TRUE

\* chr(arg) raises ValueError outside range(256)
IsByte(x) == x >= 0 /\ x <= 255

\* one turn of the loop of Assemble: the Assembler afterwards, and whether
\* addCode raised
AssembleInst(a, t) ==
    IF t.n = 1 THEN [ok |-> TRUE, ass |-> addCode(a, << OPNUM(t.op) >>)]
    ELSE IF t.op = "SET_LINENO" THEN [ok |-> TRUE, ass |-> nextLine(a, t.arg.v)]
    ELSE LET hi == t.arg.v \div 256
             lo == t.arg.v % 256
         IN  IF IsByte(hi)
             THEN [ok |-> TRUE, ass |-> addCode(a, << OPNUM(t.op), lo, hi >>)]
             ELSE [ok |-> FALSE,
                   ass |-> [a EXCEPT !.code = @ \o << OPNUM(t.op), lo >>]]

-----------------------------------------------------------------------------
(* PyFlowGraph.MakeCodeObject, as one function of the graph *)

\* the names the model uses are the strings "a", "b", "c", "x" (1 to 4); the
\* slot of each in a Python 2 set of up to five strings is hash(s) & 7
StrSlot(v) == CASE v = 1 -> 0 [] v = 2 -> 3 [] v = 3 -> 2 [] v = 4 -> 1

\* iteration over a Python set of these strings
RECURSIVE StrSetIter(_)
StrSetIter(S) ==
    IF S = {} THEN << >>
    ELSE LET m == CHOOSE x \in S : \A y \in S : StrSlot(x.v) <= StrSlot(y.v)
         IN  << m >> \o StrSetIter(S \ {m})

Range(l) == {l[i] : i \in 1..Len(l)}

\* a rearrangement that puts the cellvars outside varnames first
RearrangeCellvarsRestFirst(cv, vn) ==
    LET lookup    == Range(cv)
        remaining == lookup \ Range(vn)
    IN  StrSetIter(remaining) \o SelectSeq(vn, LAMBDA n : n \in lookup)

\* lines 436-440: the rearranged cellvars
RearrangeCellvars(cv, vn) ==
    LET lookup    == Range(cv)
        remaining == lookup \ Range(vn)
    IN  SelectSeq(vn, LAMBDA n : n \in lookup) \o StrSetIter(remaining)

\* lines 450-455, from instruction k on
RECURSIVE EncodeAll(_, _, _, _)
EncodeAll(l, k, kl, T) ==
    IF k > Len(l) THEN [insts |-> l, T |-> T]
    ELSE IF l[k].n = 2 /\ HasConverter(l[k].op)
         THEN LET r == Convert(l[k].op, kl, T, l[k].arg)
              IN  EncodeAll([l EXCEPT ![k] = Inst2(l[k].op, IntV(r.i))], k + 1, kl, r.T)
         ELSE EncodeAll(l, k + 1, kl, T)

\* Assemble, from instruction k on
RECURSIVE AssembleAll(_, _, _)
AssembleAll(l, k, a) ==
    IF k > Len(l) THEN [ok |-> TRUE, ass |-> a]
    ELSE LET r == AssembleInst(a, l[k])
         IN  IF r.ok THEN AssembleAll(l, k + 1, r.ass) ELSE r

NoRun ==
    [status |-> "none", order |-> << >>, stacksize |-> 0, co_code |-> << >>,
     co_consts |-> << >>, co_names |-> << >>, co_varnames |-> << >>,
     co_lnotab |-> << >>]

\* MakeCodeObject on the graph as it stands, in a run whose Blocks have the
\* addresses ad
RunMakeCodeObject(ad) ==
    LET ss == ComputeStackDepth(ad)
        ob == OrderBlocks(ad, entry)
        fg == FlattenGraph(ob.order)
        T0 == Tables(<< docstring >> \o consts, names, varnames,
                     RearrangeCellvars(cellvars, varnames) \o freevars)
        en == EncodeAll(fg.insts, 1, klass, T0)
        as == AssembleAll(en.insts, 1, NewAssembler)
    IN  IF ob.status = "loop" THEN [NoRun EXCEPT !.status = "loop"]
        ELSE IF ob.status = "assert" \/ fg.status = "error" \/ ~as.ok
        THEN [NoRun EXCEPT !.status = "error"]
        ELSE [status |-> "ok", order |-> ob.order, stacksize |-> ss,
              co_code |-> as.ass.code, co_consts |-> en.T.consts,
              co_names |-> en.T.names, co_varnames |-> en.T.varnames,
              co_lnotab |-> as.ass.lnotab]

-----------------------------------------------------------------------------
(* The client's calls on the graph *)

Building == pc = "build"

\* Block.__init__ at address a (a2 in the second run), then blocks.add
NewBlockObject(label, a, a2) ==
    /\ blocks' = (gBlockCounter :> Block(label, gBlockCounter)) @@ blocks
    /\ addr' = (gBlockCounter :> a) @@ addr
    /\ addr2' = (gBlockCounter :> a2) @@ addr2
    /\ gBlockCounter' = gBlockCounter + 1

\* the addresses a new object can get: any that no live Block has
Addrs == 1..MaxBlocks
FreeAddr(ad) == Addrs \ {ad[b] : b \in DOMAIN ad}

\* FlowGraph.newBlock
newBlock(a, a2) ==
    /\ Building
    /\ gBlockCounter < MaxBlocks
    /\ NewBlockObject("", a, a2)
    /\ UNCHANGED << current, tableVars, metaVars, asmVars, pc >>

\* FlowGraph.startBlock
startBlock(b) ==
    /\ Building
    /\ current' = b
    /\ UNCHANGED << blocks, gBlockCounter, addr, addr2, tableVars, metaVars,
                    asmVars, pc >>

\* FlowGraph.startExitBlock
startExitBlock ==
    /\ Building
    /\ current' = exit
    /\ UNCHANGED << blocks, gBlockCounter, addr, addr2, tableVars, metaVars,
                    asmVars, pc >>

\* an addNext without its assertions
addNextUnchecked(bl, self, block) ==
    [ok |-> TRUE,
     blocks |-> [bl EXCEPT ![self].next = Append(@, block),
                           ![block].prev = Append(bl[block].prev, self)]]

\* Block.addNext on the blocks bl: self.next.append, the first assertion,
\* block.prev.append, the second assertion
addNext(bl, self, block) ==
    LET b1 == [bl EXCEPT ![self].next = Append(@, block)]
        b2 == [b1 EXCEPT ![block].prev = Append(@, self)]
    IN  IF Len(b1[self].next) # 1 THEN [ok |-> FALSE, blocks |-> b1]
        ELSE IF Len(b2[block].prev) # 1 THEN [ok |-> FALSE, blocks |-> b2]
        ELSE [ok |-> TRUE, blocks |-> b2]

\* FlowGraph.nextBlock(block) for a block the client holds
nextBlock(b) ==
    /\ Building
    /\ LET r == addNext(blocks, current, b)
       IN  /\ blocks' = r.blocks
           /\ IF r.ok THEN current' = b /\ pc' = pc
              ELSE current' = current /\ pc' = "abort"
    /\ UNCHANGED << gBlockCounter, addr, addr2, tableVars, metaVars, asmVars >>

\* FlowGraph.nextBlock(): block is None, so a new block is made first
nextBlockNew(a, a2) ==
    /\ Building
    /\ gBlockCounter < MaxBlocks
    /\ LET nb == gBlockCounter
           bl == (nb :> Block("", nb)) @@ blocks
           r  == addNext(bl, current, nb)
       IN  /\ blocks' = r.blocks
           /\ IF r.ok THEN current' = nb /\ pc' = pc
              ELSE current' = current /\ pc' = "abort"
    /\ addr' = (gBlockCounter :> a) @@ addr
    /\ addr2' = (gBlockCounter :> a2) @@ addr2
    /\ gBlockCounter' = gBlockCounter + 1
    /\ UNCHANGED << tableVars, metaVars, asmVars >>

\* FlowGraph.emit, with Block.addOutEdge and Block.emit
emit(inst, limit) ==
    /\ Building
    /\ NumInsts < limit
    /\ blocks' = [blocks EXCEPT
                    ![current].outEdges =
                        IF inst.n = 2 /\ inst.arg.t = "blk"
                        THEN @ \cup {inst.arg.v} ELSE @,
                    ![current].insts = Append(@, inst)]
    /\ UNCHANGED << gBlockCounter, current, addr, addr2, tableVars, metaVars,
                    asmVars, pc >>

\* PyFlowGraph.setArgs: the assertion fails when varnames holds something
setArgs(a) ==
    /\ Building
    /\ IF varnames # << >>
       THEN pc' = "abort" /\ UNCHANGED << varnames, argcount, lastArgs >>
       ELSE /\ pc' = pc
            /\ lastArgs' = a
            /\ IF a # << >>
               THEN varnames' = a /\ argcount' = Len(a)
               ELSE UNCHANGED << varnames, argcount >>
    /\ UNCHANGED << graphVars, klass, docstring, flags, consts, names, closure,
                    cellvars, freevars, asmVars >>

\* PyFlowGraph.setFlag; floor keeps argcount above a bound of the model
setFlag(flag, floor) ==
    /\ Building
    /\ argcount > floor
    /\ flags' = flags \cup {flag}
    /\ argcount' = IF flag = "CO_VARARGS" THEN argcount - 1 ELSE argcount
    /\ UNCHANGED << graphVars, klass, docstring, lastArgs, tableVars, asmVars, pc >>

\* PyFlowGraph.setCellVars
setCellVars(ns) ==
    /\ Building
    /\ cellvars' = ns
    /\ UNCHANGED << graphVars, metaVars, consts, names, varnames, closure, freevars,
                    asmVars, pc >>

\* PyFlowGraph.setFreeVars
setFreeVars(ns) ==
    /\ Building
    /\ freevars' = ns
    /\ UNCHANGED << graphVars, metaVars, consts, names, varnames, closure, cellvars,
                    asmVars, pc >>

-----------------------------------------------------------------------------
(* PyFlowGraph.MakeCodeObject, step by step *)

NoCode ==
    [status |-> "none", co_argcount |-> 0, co_nlocals |-> 0, co_stacksize |-> 0,
     co_flags |-> {}, co_code |-> << >>, co_consts |-> << >>, co_names |-> << >>,
     co_varnames |-> << >>, co_firstlineno |-> 0, co_lnotab |-> << >>,
     co_freevars |-> << >>, co_cellvars |-> << >>]

\* lines 428-448: up to the construction of the ArgEncoder
MakeCodeObjectCall ==
    /\ calls' = calls + 1
    /\ LET ss == ComputeStackDepth(addr)
           ob == OrderBlocks(addr, entry)
           fg == FlattenGraph(ob.order)
           cv == RearrangeCellvars(cellvars, varnames)
       IN  /\ stacksize' = ss
           /\ run2' = RunMakeCodeObject(addr2)
           /\ IF ob.status # "ok"
              THEN /\ pc' = IF ob.status = "loop" THEN "loop" ELSE "error"
                   /\ UNCHANGED << order, flat, insts, idx, tableVars >>
              ELSE /\ order' = ob.order
                   /\ IF fg.status # "ok"
                      THEN /\ pc' = "error"
                           /\ UNCHANGED << flat, insts, idx, tableVars >>
                      ELSE /\ pc' = "encode"
                           /\ flat' = fg.insts
                           /\ insts' = fg.insts
                           /\ idx' = 1
                           /\ consts' = << docstring >> \o consts
                           /\ cellvars' = cv
                           /\ closure' = cv \o freevars
                           /\ UNCHANGED << names, varnames, freevars >>
    /\ UNCHANGED << graphVars, metaVars, ass, lines, co >>

\* the client calls MakeCodeObject when the graph is built
MakeCodeObject ==
    /\ Building
    /\ MakeCodeObjectCall

\* lines 450-455: one turn of the encoder loop
EncodeArg ==
    /\ pc = "encode"
    /\ idx <= Len(insts)
    /\ LET t == insts[idx]
       IN  IF t.n = 2 /\ HasConverter(t.op)
           THEN LET r == Convert(t.op, klass, Tables(consts, names, varnames, closure),
                                 t.arg)
                IN  /\ insts' = [insts EXCEPT ![idx] = Inst2(t.op, IntV(r.i))]
                    /\ consts' = r.T.consts
                    /\ names' = r.T.names
                    /\ varnames' = r.T.varnames
                    /\ closure' = r.T.closure
           ELSE UNCHANGED << insts, consts, names, varnames, closure >>
    /\ idx' = idx + 1
    /\ UNCHANGED << graphVars, metaVars, cellvars, freevars, pc, stacksize, order,
                    flat, ass, lines, co, run2, calls >>

\* line 98: Assemble is entered
StartAssemble ==
    /\ pc = "encode"
    /\ idx > Len(insts)
    /\ pc' = "assemble"
    /\ ass' = NewAssembler
    /\ idx' = 1
    /\ lines' = << >>
    /\ UNCHANGED << graphVars, metaVars, tableVars, stacksize, order, flat, insts,
                    co, run2, calls >>

\* lines 99-114: one turn of the loop of Assemble
AssembleStep ==
    /\ pc = "assemble"
    /\ idx <= Len(insts)
    /\ LET t == insts[idx]
           r == AssembleInst(ass, t)
       IN  /\ ass' = r.ass
           /\ pc' = IF r.ok THEN pc ELSE "error"
           /\ lines' = IF t.n = 2 /\ t.op = "SET_LINENO"
                       THEN Append(lines, [off |-> ass.codeOffset, line |-> t.arg.v,
                                           first |-> ass.firstline = 0,
                                           last |-> ass.lastline])
                       ELSE lines
    /\ idx' = idx + 1
    /\ UNCHANGED << graphVars, metaVars, tableVars, stacksize, order, flat, insts,
                    co, run2, calls >>

\* lines 459-476: the code object is made and returned; types.CodeType
\* raises ValueError for a negative argcount
ReturnCode ==
    /\ pc = "assemble"
    /\ idx > Len(insts)
    /\ argcount' = IF "CO_VARKEYWORDS" \in flags THEN argcount - 1 ELSE argcount
    /\ pc' = IF argcount' < 0 THEN "error" ELSE "done"
    /\ co' = IF argcount' < 0 THEN co ELSE
             [status |-> "ok",
              co_argcount |-> argcount',
              co_nlocals |-> IF "CO_NEWLOCALS" \in flags THEN Len(varnames) ELSE 0,
              co_stacksize |-> stacksize,
              co_flags |-> flags,
              co_code |-> ass.code,
              co_consts |-> consts,
              co_names |-> names,
              co_varnames |-> varnames,
              co_firstlineno |-> ass.firstline,
              co_lnotab |-> ass.lnotab,
              co_freevars |-> freevars,
              co_cellvars |-> cellvars]
    /\ UNCHANGED << graphVars, klass, docstring, flags, lastArgs, tableVars, stacksize,
                    order, flat, insts, idx, ass, lines, run2, calls >>

-----------------------------------------------------------------------------
(* The specification of graphs with jumps *)

\* what the client emits: an opcode without argument, relative and absolute
\* jumps to any block, conditional and unconditional
JumpOps == {"JUMP_FORWARD", "JUMP_ABSOLUTE", "SETUP_LOOP"}
GraphInsts ==
    {Inst1("POP_TOP")}
    \cup {Inst2(op, BlockArg(b)) : op \in JumpOps, b \in Bids}

\* FlowGraph.__init__ and PyFlowGraph.__init__
InitGraph ==
    /\ blocks = (entry :> Block("", entry)) @@ (exit :> Block("exit", exit))
    /\ gBlockCounter = 2
    /\ current = entry
    /\ addr = (entry :> 1) @@ (exit :> 2)
    /\ docstring = None
    /\ flags = {}
    /\ argcount = 0
    /\ lastArgs = << >>
    /\ consts = << >> /\ names = << >> /\ varnames = << >> /\ closure = << >>
    /\ cellvars = << >> /\ freevars = << >>
    /\ pc = "build"
    /\ stacksize = 0 /\ order = << >> /\ flat = << >> /\ insts = << >> /\ idx = 0
    /\ ass = NewAssembler /\ lines = << >> /\ co = NoCode /\ run2 = NoRun
    /\ calls = 0

Init ==
    /\ InitGraph
    /\ addr2 = addr
    /\ klass = "None"

Assembling ==
    \/ MakeCodeObject
    \/ EncodeArg
    \/ StartAssemble
    \/ AssembleStep
    \/ ReturnCode

Next ==
    \/ newBlock(gBlockCounter + 1, gBlockCounter + 1)
    \/ startExitBlock
    \/ \E b \in Bids : startBlock(b)
    \/ \E b \in Bids : nextBlock(b)
    \/ nextBlockNew(gBlockCounter + 1, gBlockCounter + 1)
    \/ \E inst \in GraphInsts : emit(inst, MaxInsts)
    \/ Assembling

Spec == Init /\ [][Next]_vars

-----------------------------------------------------------------------------
(* The specification of two runs: the same calls, the Block objects at any
   addresses in the second run *)

DetInsts ==
    {Inst1("POP_TOP")}
    \cup {Inst2(op, BlockArg(b)) : op \in {"JUMP_ABSOLUTE", "SETUP_LOOP"}, b \in Bids}

InitDet ==
    /\ InitGraph
    /\ addr2 \in {f \in [{entry, exit} -> Addrs] : f[entry] # f[exit]}
    /\ klass = "None"

NextDet ==
    \/ \E a2 \in FreeAddr(addr2) : newBlock(gBlockCounter + 1, a2)
    \/ \E b \in Bids : startBlock(b)
    \/ \E b \in Bids : nextBlock(b)
    \/ \E a2 \in FreeAddr(addr2) : nextBlockNew(gBlockCounter + 1, a2)
    \/ \E inst \in DetInsts : emit(inst, MaxInsts)
    \/ Assembling

SpecDet == InitDet /\ [][NextDet]_vars

-----------------------------------------------------------------------------
(* The specification of the operand encoder: one block of instructions with
   symbolic operands, in a graph made with any klass *)

MaxEncInsts == 3    \* instructions emitted into such a graph

\* the opcodes that share _convert_NAME, and LOAD_NAME
NameOpcodes == {"LOAD_NAME", "STORE_NAME", "DELETE_NAME", "IMPORT_NAME",
                "IMPORT_FROM", "LOAD_ATTR", "STORE_ATTR", "DELETE_ATTR",
                "LOAD_GLOBAL", "STORE_GLOBAL", "DELETE_GLOBAL"}

EncInsts ==
    {Inst2("LOAD_CONST", c) : c \in {IntV(2), LongV(2), IntV(7)}}
    \cup {Inst2(op, StrV(4)) : op \in NameOpcodes}
    \cup {Inst2("LOAD_FAST", StrV(n)) : n \in {1, 4}}
    \cup {Inst1("POP_TOP"), Inst2("SET_LINENO", IntV(1))}

InitEnc ==
    /\ InitGraph
    /\ addr2 = addr
    /\ klass \in {"None", "True", "False"}

NextEnc ==
    \/ \E inst \in EncInsts : emit(inst, MaxEncInsts)
    \/ Assembling

SpecEnc == InitEnc /\ [][NextEnc]_vars

-----------------------------------------------------------------------------
(* The specification of Assemble: the flat instruction list is any list made
   of a few segments (a SET_LINENO, a one-byte instruction, a run of
   three-byte instructions), and Assemble goes through it *)

MaxSegs == 4        \* segments of a flat instruction list

Rep(inst, k) == [i \in 1..k |-> inst]

Segments ==
    {<< Inst2("SET_LINENO", IntV(l)) >> : l \in {0, 1, 2, 300}}
    \cup {<< Inst1("POP_TOP") >>}
    \cup {Rep(Inst2("CALL_FUNCTION", IntV(0)), k) : k \in {1, 100}}

RECURSIVE Concat(_)
Concat(ss) == IF ss = << >> THEN << >> ELSE ss[1] \o Concat(Tail(ss))

Streams == UNION {{Concat(ss) : ss \in [1..n -> Segments]} : n \in 1..MaxSegs}

InitAsm ==
    /\ blocks = (entry :> Block("", entry)) @@ (exit :> Block("exit", exit))
    /\ gBlockCounter = 2
    /\ current = entry
    /\ addr = (entry :> 1) @@ (exit :> 2)
    /\ addr2 = addr
    /\ klass = "None"
    /\ docstring = None
    /\ flags = {}
    /\ argcount = 0
    /\ lastArgs = << >>
    /\ consts = << None >> /\ names = << >> /\ varnames = << >> /\ closure = << >>
    /\ cellvars = << >> /\ freevars = << >>
    /\ pc = "assemble"
    /\ stacksize = 0 /\ order = << entry, exit >>
    /\ insts \in Streams
    /\ flat = insts
    /\ idx = 1
    /\ ass = NewAssembler /\ lines = << >> /\ co = NoCode /\ run2 = NoRun
    /\ calls = 1

NextAsm ==
    \/ AssembleStep
    \/ ReturnCode

SpecAsm == InitAsm /\ [][NextAsm]_vars

-----------------------------------------------------------------------------
(* The specification of graphs whose instructions move the stack: blocks are
   made and linked by jumps and fall-through, and the instructions have their
   stack effect from the table, from a name pattern, from a method, or none *)

MaxDepthInsts == 3  \* instructions emitted into such a graph

DepthInsts ==
    {Inst1("POP_TOP"), Inst1("RETURN_VALUE"), Inst2("LOAD_CONST", IntV(7)),
     Inst2("UNPACK_SEQUENCE", IntV(3))}
    \cup {Inst2("JUMP_ABSOLUTE", BlockArg(b)) : b \in Bids}

NextDepth ==
    \/ newBlock(gBlockCounter + 1, gBlockCounter + 1)
    \/ \E b \in Bids : startBlock(b)
    \/ nextBlockNew(gBlockCounter + 1, gBlockCounter + 1)
    \/ \E inst \in DepthInsts : emit(inst, MaxDepthInsts)
    \/ Assembling

SpecDepth == Init /\ [][NextDepth]_vars

-----------------------------------------------------------------------------
(* The specification of Assemble on numeric operands: the flat instruction
   list is any short list of instructions whose operands lie in and around
   the two-byte range *)

MaxPack == 3        \* instructions of such a list

Opargs == {-3, -1, 0, 255, 256, 65535, 65536}

PackInsts ==
    {Inst2(op, IntV(v)) : op \in {"CALL_FUNCTION", "JUMP_FORWARD"}, v \in Opargs}
    \cup {Inst1("POP_TOP"), Inst2("SET_LINENO", IntV(1))}

PackStreams == UNION {[1..n -> PackInsts] : n \in 1..MaxPack}

InitPack ==
    /\ blocks = (entry :> Block("", entry)) @@ (exit :> Block("exit", exit))
    /\ gBlockCounter = 2
    /\ current = entry
    /\ addr = (entry :> 1) @@ (exit :> 2)
    /\ addr2 = addr
    /\ klass = "None"
    /\ docstring = None
    /\ flags = {}
    /\ argcount = 0
    /\ lastArgs = << >>
    /\ consts = << None >> /\ names = << >> /\ varnames = << >> /\ closure = << >>
    /\ cellvars = << >> /\ freevars = << >>
    /\ pc = "assemble"
    /\ stacksize = 0 /\ order = << entry, exit >>
    /\ insts \in PackStreams
    /\ flat = insts
    /\ idx = 1
    /\ ass = NewAssembler /\ lines = << >> /\ co = NoCode /\ run2 = NoRun
    /\ calls = 1

SpecPack == InitPack /\ [][NextAsm]_vars

-----------------------------------------------------------------------------
(* The specification of a function's graph: arguments, flags, cell and free
   variables are set, instructions with closure operands are emitted into the
   entry block, and the code object is made *)

MaxFuncInsts == 2   \* instructions emitted into such a graph
MaxFlagDebt  == 1   \* setFlag is called while argcount > -MaxFlagDebt
MaxCells     == 3   \* names in a list given to setCellVars

Names == {StrV(n) : n \in 1..4}

\* the lists of up to n different names
DistinctLists(n) ==
    UNION {{l \in [1..k -> Names] : \A i, j \in 1..k : l[i] = l[j] => i = j} :
             k \in 0..n}

ArgLists  == {<< >>, << StrV(1) >>, << StrV(2), StrV(1) >>,
              << StrV(1), StrV(2), StrV(3) >>}
CellLists == DistinctLists(MaxCells)
FreeLists == {<< >>, << StrV(2) >>}
FuncFlags == {"CO_VARARGS", "CO_VARKEYWORDS"}

FuncInsts ==
    {Inst2(op, StrV(n)) : op \in {"LOAD_DEREF", "STORE_DEREF", "LOAD_CLOSURE"},
                          n \in {1, 4}}

InitFunc ==
    /\ InitGraph
    /\ addr2 = addr
    /\ klass = "None"

NextFunc ==
    \/ \E a \in ArgLists : setArgs(a)
    \/ \E f \in FuncFlags : setFlag(f, 0 - MaxFlagDebt)
    \/ \E ns \in CellLists : setCellVars(ns)
    \/ \E ns \in FreeLists : setFreeVars(ns)
    \/ \E inst \in FuncInsts : emit(inst, MaxFuncInsts)
    \/ Assembling

SpecFunc == InitFunc /\ [][NextFunc]_vars

-----------------------------------------------------------------------------
(* Properties of the emission order *)

\* OrderBlocks has returned: the order always starts with the entry block
Ordered == order # << >>

Count(l, x) == Cardinality({i \in 1..Len(l) : l[i] = x})

\* the blocks reachable from the entry block through out-edges and next
RECURSIVE ReachFrom(_)
ReachFrom(S) ==
    LET T == S \cup UNION {blocks[b].outEdges \cup Range(blocks[b].next) : b \in S}
    IN  IF T = S THEN S ELSE ReachFrom(T)

Reachable == ReachFrom({entry})

\* C1: when OrderBlocks returns, every block B of the order that has a next
\* block C is immediately followed by C in the order.
C1_FallThrough ==
    Ordered =>
        \A k \in 1..Len(order) :
            blocks[order[k]].next # << >> =>
                /\ k < Len(order)
                /\ order[k + 1] = blocks[order[k]].next[1]

\* C2: when OrderBlocks returns, every block reachable from the entry block
\* is in the order exactly once, and no block at all is listed twice.
C2_ExactlyOnce ==
    Ordered =>
        /\ \A b \in Reachable : Count(order, b) = 1
        /\ \A b \in Bids : Count(order, b) <= 1

\* C2 (amended): when OrderBlocks returns, every block reachable from the
\* entry block is in the order at least once, every block in the order is
\* reachable or is the exit block, and if the entry block has no prev no
\* block but the exit block is listed twice.
C2_AtLeastOnce ==
    Ordered =>
        /\ \A b \in Reachable : Count(order, b) >= 1
        /\ \A b \in Bids \ {exit} : Count(order, b) >= 1 => b \in Reachable
        /\ blocks[entry].prev = << >> =>
              \A b \in Bids \ {exit} : Count(order, b) <= 1

\* a block reached by a jump only is in the order, and so is the exit block,
\* twice
C2_Witness ==
    /\ Ordered
    /\ Count(order, exit) = 2
    /\ \E b \in Reachable \ {entry, exit} :
          /\ blocks[b].prev = << >>
          /\ Count(order, b) = 1

\* C3: when OrderBlocks returns, a reachable block B holding a relative jump
\* to a block T is listed before T.
C3_RelJumpBefore ==
    Ordered =>
        \A b \in Reachable : \A i \in 1..Len(blocks[b].insts) :
            blocks[b].insts[i].op \in HAS_JREL =>
                \E j, k \in 1..Len(order) :
                    /\ j < k
                    /\ order[j] = b
                    /\ order[k] = blocks[b].insts[i].arg.v

-----------------------------------------------------------------------------
(* Properties of the flattened instructions *)

\* FlattenGraph has returned and the encoder loop was entered
Flattened == pc \in {"encode", "assemble", "done"}

\* the byte at which instruction i of the list l starts
Offset(l, i) == WidthSum(SubSeq(l, 1, i - 1))

\* the byte at which the k-th block of the order starts
RECURSIVE BlockStart(_)
BlockStart(k) ==
    IF k = 1 THEN 0
    ELSE BlockStart(k - 1) + WidthSum(blocks[order[k - 1]].insts)

\* the start of the last listing of block b in the order
LastStart(b) ==
    BlockStart(CHOOSE k \in 1..Len(order) :
                 order[k] = b /\ \A j \in (k + 1)..Len(order) : order[j] # b)

\* C4: after FlattenGraph, a relative jump at byte offset p to block B has
\* oparg begin[B] - (p + 3) and an absolute jump to B has oparg begin[B],
\* begin[B] being the byte at which the instructions of B start (those of
\* its last listing, when B is listed more than once).
C4_JumpLayout ==
    Flattened =>
        \A i \in 1..Len(flat) :
            LET src == FlatInsts(order)[i]
            IN  /\ src.op \in HAS_JREL =>
                     flat[i].arg = IntV(LastStart(src.arg.v) - (Offset(flat, i) + 3))
                /\ src.op \in HAS_JABS =>
                     flat[i].arg = IntV(LastStart(src.arg.v))

\* a relative and an absolute jump were laid out, both over some bytes
C4_Witness ==
    /\ pc = "done"
    /\ \E i, j \in 1..Len(flat) :
          /\ flat[i].op \in HAS_JREL /\ flat[i].arg.v > 0
          /\ flat[j].op \in HAS_JABS /\ flat[j].arg.v > 0

\* C5: two runs making the same calls return the same emission order and the
\* same co_code, co_consts, co_names, co_varnames, co_lnotab and stacksize.
C5_Determinism ==
    /\ Ordered /\ run2.status = "ok" => run2.order = order
    /\ pc = "done" =>
          /\ run2.status = "ok"
          /\ run2.order = order
          /\ run2.stacksize = co.co_stacksize
          /\ run2.co_code = co.co_code
          /\ run2.co_consts = co.co_consts
          /\ run2.co_names = co.co_names
          /\ run2.co_varnames = co.co_varnames
          /\ run2.co_lnotab = co.co_lnotab

\* both runs returned, and in the second the blocks iterated over lie at
\* addresses in the reverse order of their bids
C5_Witness ==
    /\ pc = "done"
    /\ Len(order) >= 3
    /\ \E b, c \in Reachable \ {entry} : b < c /\ addr2[b] > addr2[c]

-----------------------------------------------------------------------------
(* Properties of the operand encoder *)

\* the instructions the encoder loop has been through
Encoded == IF pc = "encode" THEN 1..(idx - 1)
           ELSE IF pc \in {"assemble", "done"} THEN 1..Len(insts) ELSE {}

TheTables == Tables(consts, names, varnames, closure)

\* C6: the index encoded for an operand refers, in the table of its opcode,
\* to that operand (same type, same value), right after the call and after
\* every later interning call, up to the final tables.
C6_InternRoundtrip ==
    \A i \in Encoded :
        (flat[i].n = 2 /\ HasConverter(flat[i].op)) =>
            LET tab == IndexTable(flat[i].op, TheTables)
                k   == insts[i].arg.v
            IN  /\ k >= 0 /\ k < Len(tab)
                /\ tab[k + 1].t = flat[i].arg.t
                /\ tab[k + 1].v = flat[i].arg.v

\* three operands were encoded into tables that grew after the first one
C6_Witness ==
    /\ pc = "done"
    /\ Len(flat) = 3
    /\ \A i \in 1..3 : HasConverter(flat[i].op)
    /\ Len(co.co_consts) = 3
    /\ Len(co.co_names) = 1

NoDuplicates(tab) ==
    \A i, j \in 1..Len(tab) : (tab[i].t = tab[j].t /\ tab[i].v = tab[j].v) => i = j

\* C7: two LOAD_CONST operands get the same index exactly when they have the
\* same type and the same value (the integer 2 and the long 2 get two
\* entries, the same integer twice gets one), and no table ever holds two
\* entries of the same type and value.
C7_TypeStrict ==
    /\ \A i, j \in Encoded :
          (flat[i].op = "LOAD_CONST" /\ flat[j].op = "LOAD_CONST") =>
              ((insts[i].arg = insts[j].arg) <=> (flat[i].arg = flat[j].arg))
    /\ NoDuplicates(consts) /\ NoDuplicates(names)
    /\ NoDuplicates(varnames) /\ NoDuplicates(closure)

\* the integer 2, the long 2 and the integer 2 again were encoded
C7_Witness ==
    /\ pc = "done"
    /\ flat = << Inst2("LOAD_CONST", IntV(2)), Inst2("LOAD_CONST", LongV(2)),
                 Inst2("LOAD_CONST", IntV(2)) >>
    /\ co.co_consts = << None, IntV(2), LongV(2) >>
    /\ insts[1] = insts[3]

\* C9: Assemble places each instruction at the pc FlattenGraph gave it (1
\* byte for a 1-tuple, 3 for a 2-tuple, none for SET_LINENO), and co_code is
\* as long as the sum of these widths.
C9_LayoutAgreement ==
    /\ pc = "assemble" => ass.codeOffset = Offset(flat, idx)
    /\ pc = "done" => Len(co.co_code) = WidthSum(flat)

\* instructions of all three widths were assembled
C9_Witness ==
    /\ pc = "done"
    /\ \E i, j, k \in 1..Len(flat) :
          /\ flat[i].n = 1
          /\ flat[j].op = "SET_LINENO"
          /\ flat[k].op = "LOAD_CONST"
    /\ Len(co.co_code) = 4

\* C10 (as claimed): the encoder of a name opcode returns the index of x in
\* names; with klass True x is not added to varnames, with klass False x is
\* added to names and to varnames.
C10_NameKlass ==
    [][(pc = "encode" /\ idx <= Len(insts) /\ insts[idx].op \in NameOpcodes) =>
          LET x == insts[idx].arg
          IN  /\ insts'[idx].arg.v < Len(names')
              /\ names'[insts'[idx].arg.v + 1] = x
              /\ klass = "True" => varnames' = varnames
              /\ klass = "False" => x \in Range(varnames')]_vars

-----------------------------------------------------------------------------
(* Properties of the line-number table *)

\* replaying the table from entry k on: the line at byte offset p, when the
\* entries before k sum up to offset off and line number line
RECURSIVE LineAt(_, _, _, _, _)
LineAt(tab, k, off, line, p) ==
    IF k > Len(tab) THEN line
    ELSE IF off + tab[k] > p THEN line
    ELSE LineAt(tab, k + 2, off + tab[k], line + tab[k + 1], p)

\* the k-th SET_LINENO was skipped as a backward delta
Suppressed(k) == ~lines[k].first /\ lines[k].line < lines[k].last

\* the k-th SET_LINENO is the last one that was not skipped at its offset
LastAtOffset(k) ==
    \A j \in (k + 1)..Len(lines) : lines[j].off = lines[k].off => Suppressed(j)

Recovered(k) ==
    LineAt(ass.lnotab, 1, 0, ass.firstline, lines[k].off) = lines[k].line

LnotabBytes == \A i \in 1..Len(ass.lnotab) : IsByte(ass.lnotab[i])

S5Stream ==
    << Inst2("SET_LINENO", IntV(1)) >> \o Rep(Inst2("CALL_FUNCTION", IntV(0)), 100)
    \o << Inst2("SET_LINENO", IntV(2)) >>

S5Encoding == (pc = "done" /\ flat = S5Stream) => co.co_lnotab = << 255, 0, 45, 1 >>

NoLineZero ==
    \A i \in 1..Len(insts) : insts[i].op = "SET_LINENO" => insts[i].arg.v # 0

-----------------------------------------------------------------------------
(* Properties of the cell variables, the closure and the argument count *)

\* MakeCodeObject has got past the rearrangement of cellvars
Rearranged == pc = "build" /\ pc' = "encode"

\* the cellvars that appear in varnames, in the order of varnames
InVarnames == SelectSeq(varnames, LAMBDA n : n \in Range(cellvars))

\* the cellvars that do not appear in varnames, in the order of cellvars
NotInVarnames == SelectSeq(cellvars, LAMBDA n : n \notin Range(varnames))

\* C11 (as claimed): MakeCodeObject leaves in cellvars the cellvars that appear
\* in varnames, in varnames order, followed by the other cellvars in their
\* original order, however many there are; closure is that list followed by
\* freevars.
C11_CellvarsOriginalOrder ==
    [][Rearranged =>
          /\ cellvars' = InVarnames \o NotInVarnames
          /\ closure' = cellvars' \o freevars]_vars

\* C11 (amended): the cellvars that appear in varnames come first, in varnames
\* order; the other cellvars follow, each once, in some order, which is their
\* original order when there is at most one of them; closure is that list
\* followed by freevars.
C11_CellvarsReordered ==
    [][Rearranged =>
          LET k    == Len(InVarnames)
              rest == SubSeq(cellvars', k + 1, Len(cellvars'))
          IN  /\ Len(cellvars') = k + Len(NotInVarnames)
              /\ SubSeq(cellvars', 1, k) = InVarnames
              /\ Range(rest) = Range(NotInVarnames)
              /\ Len(NotInVarnames) <= 1 => rest = NotInVarnames
              /\ closure' = cellvars' \o freevars]_vars

\* a code object whose cellvars are one argument and two other names
C11_Witness ==
    /\ pc = "done"
    /\ lastArgs = << StrV(1) >>
    /\ co.co_cellvars = << StrV(1), StrV(3), StrV(2) >>

-----------------------------------------------------------------------------
(* Properties of the next / prev links *)

LinkInvariant ==
    /\ \A b \in Bids : Len(blocks[b].next) <= 1 /\ Len(blocks[b].prev) <= 1
    /\ \A b, c \in Bids : blocks[b].next = << c >> <=> blocks[c].prev = << b >>

-----------------------------------------------------------------------------
(* Properties of the byte packing *)

\* Assemble is at a two-field instruction that is not SET_LINENO
AtPacked ==
    /\ pc = "assemble"
    /\ idx <= Len(insts)
    /\ insts[idx].n = 2
    /\ insts[idx].op # "SET_LINENO"

\* C13: a two-field instruction other than SET_LINENO whose oparg lies in
\* 0..65535 adds exactly the three bytes opcode, oparg mod 256, oparg div 256;
\* with any other oparg Assemble fails, and then no code object is produced.
C13_BytePacking ==
    /\ [][AtPacked =>
            LET t == insts[idx]
                v == t.arg.v
            IN  IF v >= 0 /\ v <= 65535
                THEN /\ pc' = "assemble"
                     /\ ass'.code = ass.code \o << OPNUM(t.op), v % 256, v \div 256 >>
                     /\ ass'.codeOffset = ass.codeOffset + 3
                     /\ \A i \in 1..Len(ass'.code) : IsByte(ass'.code[i])
                ELSE pc' = "error"]_vars
    /\ [](pc = "error" => (co.status = "none" /\ ~ENABLED NextAsm))

\* Assemble has packed the oparg 65535 and failed on the oparg 65536
C13_Witness ==
    /\ pc = "error"
    /\ idx = 3
    /\ insts[1] = Inst2("CALL_FUNCTION", IntV(65535))
    /\ insts[2] = Inst2("CALL_FUNCTION", IntV(65536))
    /\ ass.codeOffset = 3
    /\ SubSeq(ass.code, 1, 3) = << 131, 255, 255 >>

-----------------------------------------------------------------------------
(* Properties of the argument count *)

Discount(flag) == IF flag \in flags THEN 1 ELSE 0

\* C14: whatever setArgs and setFlag calls were made, and in whatever order,
\* the code object's co_argcount is the length of the argument list less one
\* for CO_VARARGS and one for CO_VARKEYWORDS when set, and is not negative.
C14_Argcount ==
    pc = "done" =>
        /\ co.co_argcount =
               Len(lastArgs) - Discount("CO_VARARGS") - Discount("CO_VARKEYWORDS")
        /\ co.co_argcount >= 0

-----------------------------------------------------------------------------
(* Properties of the unconditional transfers *)

\* the block is not empty and the opcode of its last instruction is one of
\* the five
EndsInTransfer(b) ==
    /\ blocks[b].insts # << >>
    /\ blocks[b].insts[Len(blocks[b].insts)].op \in uncond_transfer

\* C15: has_unconditional_transfer is true exactly for the non-empty blocks
\* whose last opcode is RETURN_VALUE, RAISE_VARARGS, JUMP_ABSOLUTE,
\* JUMP_FORWARD or CONTINUE_LOOP, with one field or with two; so when the
\* entry block is the only reachable block and ends in one of them, no
\* implicit exit follows it in the order.
C15_UncondTransfer ==
    /\ \A b \in Bids : has_unconditional_transfer(b) <=> EndsInTransfer(b)
    /\ (Ordered /\ Reachable = {entry} /\ EndsInTransfer(entry)) =>
           order = << entry >>

-----------------------------------------------------------------------------
(* Properties of the stack depth *)

SetMax(S) == CHOOSE x \in S : \A y \in S : y <= x

\* the largest value accumulated along a path from b on that follows
\* children edges, d being the value before b and path the blocks before b;
\* a path ends where it would come back to one of its blocks
RECURSIVE PathMax(_, _, _)
PathMax(b, d, path) ==
    IF b \in path THEN d
    ELSE LET d1       == d + findDepth(blocks[b].insts)
             children == blocks[b].outEdges \cup Range(blocks[b].next)
         IN  IF children # {}
             THEN SetMax({PathMax(c, d1, path \cup {b}) : c \in children})
             ELSE IF blocks[b].label # "exit"
                  THEN PathMax(exit, d1, path \cup {b})
                  ELSE d1

Reverse(l) == [i \in 1..Len(l) |-> l[Len(l) + 1 - i]]

\* max_depth of ComputeStackDepth with the children of every block visited
\* in the opposite order
RECURSIVE max_depthRev(_, _, _)
RECURSIVE max_depthRev_children(_, _, _, _)
max_depthRev(b, d, seen) ==
    IF b \in seen THEN [val |-> d, seen |-> seen]
    ELSE LET seen1    == seen \cup {b}
             d1       == d + findDepth(blocks[b].insts)
             children == Reverse(get_children(addr, b))
         IN  IF children # << >>
             THEN max_depthRev_children(children, d1, seen1, << >>)
             ELSE IF blocks[b].label # "exit"
                  THEN max_depthRev(exit, d1, seen1)
                  ELSE [val |-> d1, seen |-> seen1]

max_depthRev_children(children, d, seen, vals) ==
    IF children = << >> THEN [val |-> SeqMax(vals), seen |-> seen]
    ELSE LET r == max_depthRev(children[1], d, seen)
         IN  max_depthRev_children(Tail(children), d, r.seen, Append(vals, r.val))

\* C16: the stack size of the code object is the largest value accumulated
\* along any path from the entry block that follows children edges (a
\* childless block that is not labeled exit going on to the exit block), and
\* it is the same when the children of a block are visited in another order.
C16_MaxOverPaths ==
    pc = "done" =>
        /\ co.co_stacksize = PathMax(entry, 0, {})
        /\ co.co_stacksize = max_depthRev(entry, 0, {}).val

\* the effect of the first k instructions of l together
NetEffect(l, k) == SeqSum([i \in 1..k |-> InstDelta(l[i])])

\* the highest depth at which the stack stands after an instruction of l, and
\* 0 if it never stands above where it started
PeakDepth(l) == SetMax({0} \cup {NetEffect(l, k) : k \in 1..Len(l)})

\* neither the entry block nor the exit block has children
StraightLine ==
    get_children(addr, entry) = << >> /\ get_children(addr, exit) = << >>

\* C17 (as claimed): the value of a block in the stack-depth computation is
\* the sum of the effects of its instructions, negative when they net to a
\* negative effect; the stack size of a straight-line graph is the sum for
\* the entry block plus the sum for the exit block.
C17_BlockValueIsSum ==
    /\ \A b \in Bids :
          findDepth(blocks[b].insts) =
              NetEffect(blocks[b].insts, Len(blocks[b].insts))
    /\ (pc = "done" /\ StraightLine) =>
           co.co_stacksize =
               NetEffect(blocks[entry].insts, Len(blocks[entry].insts))
               + NetEffect(blocks[exit].insts, Len(blocks[exit].insts))

\* C17 (amended): the value of a block is the highest running sum of the
\* effects of its instructions, taken after each instruction, and 0 when no
\* running sum is positive; the stack size of a straight-line graph is that
\* value for the entry block plus that value for the exit block.
C17_BlockValueIsPeak ==
    /\ \A b \in Bids : findDepth(blocks[b].insts) = PeakDepth(blocks[b].insts)
    /\ (pc = "done" /\ StraightLine) =>
           co.co_stacksize =
               PeakDepth(blocks[entry].insts) + PeakDepth(blocks[exit].insts)

\* a block that pushes one value and pops two
C17_Witness ==
    /\ pc = "done"
    /\ StraightLine
    /\ blocks[entry].insts =
           << Inst2("LOAD_CONST", IntV(7)), Inst1("POP_TOP"), Inst1("POP_TOP") >>
    /\ co.co_stacksize = 1

-----------------------------------------------------------------------------
(* Properties of the closure *)

ClosureOps == {"LOAD_DEREF", "STORE_DEREF", "LOAD_CLOSURE"}

\* C18: when MakeCodeObject returns, closure is the cellvars of the code
\* object followed by its freevars, and the index encoded for every
\* LOAD_DEREF, STORE_DEREF and LOAD_CLOSURE, whatever the name, is less than
\* the number of cellvars and freevars together.
C18_Closure ==
    pc = "done" =>
        /\ closure = co.co_cellvars \o co.co_freevars
        /\ \A i \in 1..Len(insts) :
              insts[i].op \in ClosureOps =>
                  insts[i].arg.v < Len(co.co_cellvars) + Len(co.co_freevars)

-----------------------------------------------------------------------------
(* Properties of the SET_LINENO instructions *)

\* Assemble is at a SET_LINENO
AtSetLineno ==
    /\ pc = "assemble"
    /\ idx <= Len(insts)
    /\ insts[idx].n = 2
    /\ insts[idx].op = "SET_LINENO"

\* the last SET_LINENO so far that was not skipped
LastKept == SetMax({k \in 1..Len(lines) : ~Suppressed(k)})

\* the bytes of tab at the places p, p + 2, ... together
RECURSIVE SumFrom(_, _)
SumFrom(tab, p) == IF p > Len(tab) THEN 0 ELSE tab[p] + SumFrom(tab, p + 2)

\* C19: a SET_LINENO whose line is lower than lastline raises nothing and
\* leaves lnotab, firstline, lastline and lastoff as they are; lastline is
\* always the line of the last SET_LINENO that was not skipped, and the
\* entries a later forward SET_LINENO adds span the lines from there and the
\* bytes from lastoff.
C19_BackwardSkipped ==
    /\ [][(AtSetLineno /\ insts[idx].arg.v < ass.lastline) =>
            (pc' = "assemble" /\ ass' = ass)]_vars
    /\ [](lines # << >> => ass.lastline = lines[LastKept].line)
    /\ [][(AtSetLineno /\ ass.firstline # 0 /\ insts[idx].arg.v >= ass.lastline) =>
            LET added == SubSeq(ass'.lnotab, Len(ass.lnotab) + 1, Len(ass'.lnotab))
            IN  /\ SumFrom(added, 2) = insts[idx].arg.v - lines[LastKept].line
                /\ SumFrom(added, 1) = ass.codeOffset - ass.lastoff
                /\ ass'.lastline = insts[idx].arg.v]_vars

\* line 2, one byte, line 1 (skipped), line 300: the table spans 298 lines
C19_Witness ==
    /\ pc = "done"
    /\ flat = << Inst2("SET_LINENO", IntV(2)), Inst1("POP_TOP"),
                 Inst2("SET_LINENO", IntV(1)), Inst2("SET_LINENO", IntV(300)) >>
    /\ Suppressed(2)
    /\ co.co_lnotab = << 1, 255, 0, 43 >>

\* what the delta encoding does with the SET_LINENO Assemble is at
DeltaEncoded ==
    LET v     == insts[idx].arg.v
        added == SubSeq(ass'.lnotab, Len(ass.lnotab) + 1, Len(ass'.lnotab))
    IN  /\ ass'.firstline = ass.firstline
        /\ IF v >= ass.lastline
           THEN /\ SumFrom(added, 2) = v - ass.lastline
                /\ SumFrom(added, 1) = ass.codeOffset - ass.lastoff
                /\ ass'.lastline = v
                /\ ass'.lastoff = ass.codeOffset
           ELSE ass' = ass

Nonzero == {k \in 1..Len(lines) : lines[k].line # 0}

-----------------------------------------------------------------------------
(* Termination *)

\* MakeCodeObject has returned a code object or raised an error, or a call
\* on the graph has raised
Finished == pc \in {"done", "error", "abort"}

\* C21: whatever graph the calls have built, cycles of next links and of jump
\* edges included, MakeCodeObject once called goes on until it returns a
\* code object or raises an error: it is never inside ComputeStackDepth or
\* OrderBlocks with no way to go on.
C21_Termination == Building \/ Finished \/ ENABLED Assembling

-----------------------------------------------------------------------------
(* Properties of the jump targets *)

\* the blocks that the jump instructions of block b name
JumpTargets(b) ==
    {blocks[b].insts[i].arg.v :
        i \in {j \in 1..Len(blocks[b].insts) : IsJump(blocks[b].insts[j])}}

\* C22: every block that a jump instruction of a block of the emission
\* order names, the implicitly appended exit block included, is in the
\* emission order itself, so FlattenGraph finds begin[target] for every jump
\* and does not fail.
C22_TargetsLaidOut ==
    Ordered =>
        /\ \A i \in 1..Len(order) : JumpTargets(order[i]) \subseteq Range(order)
        /\ FlattenGraph(order).status = "ok"

-----------------------------------------------------------------------------
(* The specification of repeated assembly: a graph of one block, with
   arguments, flags, cell variables, constants and closure operands, on which
   MakeCodeObject is called again once it has returned *)

MaxCalls == 2         \* calls of MakeCodeObject on one graph
MaxRepeatInsts == 2   \* instructions emitted into such a graph

RepeatInsts ==
    {Inst2("LOAD_CONST", IntV(7)), Inst2("LOAD_CONST", None),
     Inst2("LOAD_DEREF", StrV(2)), Inst1("POP_TOP")}

RepeatCells == {<< >>, << StrV(2), StrV(3) >>}

\* the client calls MakeCodeObject on a graph that has been assembled and
\* that no call has changed since
MakeCodeObjectAgain ==
    /\ pc = "done"
    /\ calls < MaxCalls
    /\ MakeCodeObjectCall

\* the second call is about to return: co is still the first call's record
SecondReturns == pc = "assemble" /\ idx > Len(insts) /\ calls = 2

InitRepeat ==
    /\ InitGraph
    /\ addr2 = addr
    /\ klass = "None"

NextRepeat ==
    \/ \E a \in ArgLists : setArgs(a)
    \/ setFlag("CO_VARKEYWORDS", 0 - MaxFlagDebt)
    \/ \E ns \in RepeatCells : setCellVars(ns)
    \/ \E inst \in RepeatInsts : emit(inst, MaxRepeatInsts)
    \/ Assembling
    \/ MakeCodeObjectAgain

SpecRepeat == InitRepeat /\ [][NextRepeat]_vars

\* C23: a second call of MakeCodeObject on a graph that no call has changed
\* since the first call returned, returns too, and the record it returns has
\* the co_code, co_consts, co_argcount and co_cellvars of the first record.
C23_Repeatable ==
    [][SecondReturns =>
          /\ pc' = "done"
          /\ co'.co_code = co.co_code
          /\ co'.co_consts = co.co_consts
          /\ co'.co_argcount = co.co_argcount
          /\ co'.co_cellvars = co.co_cellvars]_vars

====
